---- MODULE Spec2Model ----
(***************************************************************************)
(* The submission orchestrator of the Freshdesk canvas app: the            *)
(* /api/submit handler with its 9-second deadline timer and detached       *)
(* background task, the /api/initialize handler, and the shared            *)
(* ticketTracker map and app.locals context they read and write.           *)
(***************************************************************************)
EXTENDS Integers, Sequences, FiniteSets, TLC

\* Number of /api/submit requests in one behaviour.
NReq == 2

Reqs == 1..NReq

\* Identities (end-user email addresses); "" is a missing/empty email.
Emails == {"a@x", "b@x"}

MaybeEmail == Emails \cup {""}

ComponentIds ==
  {"create_ticket", "submit_ticket_button", "cancel", "retry_button", "other"}

\* Outcomes of one awaited outbound call.
Outcomes == {"ok", "fail"}

VARIABLES
  ticketTracker,   \* Map email -> record (the function's DOMAIN is the key set)
  locals,          \* app.locals.intercomContext.customerEmail ("" when unset)
  body,            \* body[r]: the request body of request r
  hpc,             \* hpc[r]: where the route handler of r is suspended
  tpc,             \* tpc[r]: state of r's deadline timer
  bpc,             \* bpc[r]: where r's background task is suspended
  responseSent,    \* responseSent[r]: the handler's flag
  resp,            \* resp[r]: the responses emitted on res, in order
  bgErr,           \* bgErr[r]: message of the error caught by the background task
  bgTicket,        \* bgTicket[r]: id returned by createFreshdeskTicket (0: none)
  notes,           \* notes[r]: the postIntercomNote calls made for r
  log,             \* log[r]: the events of r, in order
  retries,         \* fetchWithRetry: the retries argument of the call
  initialDelay,    \* fetchWithRetry: the initialDelay argument of the call
  attempts,        \* fetchWithRetry: attempts (counts the failed ones)
  currentDelay,    \* fetchWithRetry: currentDelay
  fpc,             \* fetchWithRetry: where the call is suspended
  calls,           \* fetchWithRetry: the axios calls made so far
  waits,           \* fetchWithRetry: the delays waited so far, in order
  result,          \* fetchWithRetry: what the call gave its caller
  description,     \* create-ticket endpoint: ticketData.description
  previous,        \* create-ticket endpoint: the description before the last merge
  conversation,    \* create-ticket endpoint: the conversation id of the last merge
  merged           \* create-ticket endpoint: the merges applied so far

\* The variables of one fetchWithRetry call.
fetchVars == <<retries, initialDelay, attempts, currentDelay, fpc, calls,
               waits, result>>

\* The variables of the banner merge of the create-ticket endpoint.
mergeVars == <<description, previous, conversation, merged>>

\* The variables of the submit and initialize handlers.
orchVars == <<ticketTracker, locals, body, hpc, tpc, bpc, responseSent, resp,
              bgErr, bgTicket, notes, log>>

vars == <<ticketTracker, locals, body, hpc, tpc, bpc, responseSent, resp,
          bgErr, bgTicket, notes, log, fetchVars, mergeVars>>

\* A product_id that is not a string (a JSON number): truthy, without a
\* replace method.
NonString == "number 7"

\* The request bodies a client can send.  description stands for the value of
\* inputValues.description || defaultDescription || ''.  Fields the handler
\* never reads on a path are fixed to one value on that path.
NoBody ==
  [component_id |-> "none", contact |-> "", email |-> "", subject |-> "",
   description |-> "", product_id |-> "", conversationId |-> ""]

\* A string of white space only.
Whitespace == "  "

\* A non-empty string that does not look like an email address.
Malformed == "not-an-email"

LooksLikeEmail(e) == e \in Emails

\* The values of the email and subject inputs of the form.
FormEmails == MaybeEmail \cup {Whitespace, Malformed}

Subjects == {"", Whitespace, "Help"}

\* String.prototype.trim on the values of the form.
trimString(str) == IF str = Whitespace THEN "" ELSE str

TicketBodies ==
  { [component_id |-> "submit_ticket_button", contact |-> c, email |-> e,
     subject |-> s, description |-> d, product_id |-> p, conversationId |-> k] :
      c \in MaybeEmail, e \in FormEmails, s \in Subjects,
      d \in {"", "text"}, p \in {"", "7", NonString}, k \in {"", "conv"} }

OtherBodies ==
  { [component_id |-> a, contact |-> c, email |-> "", subject |-> "",
     description |-> "", product_id |-> "", conversationId |-> ""] :
      a \in ComponentIds \ {"submit_ticket_button"}, c \in MaybeEmail }

TicketSubmissionBody(b) == b.component_id = "submit_ticket_button"

\* Required-field validation of a ticket submission.
isEmailEmpty(b) == b.email = "" \/ trimString(b.email) = ""

isSubjectEmpty(b) == b.subject = "" \/ trimString(b.subject) = ""

MissingOtherFields(b) == b.subject = "" \/ b.description = "" \/ b.product_id = ""

\* A ticket submission that passes the first validation and makes
\* inputValues.product_id.replace('product_', '') throw a TypeError.
ThrowsTypeError(b) ==
  /\ b.component_id = "submit_ticket_button"
  /\ ~isEmailEmpty(b) /\ ~isSubjectEmpty(b)
  /\ b.product_id = NonString

\* A ticket submission that passes every check of the handler.
Accepted(b) ==
  /\ b.component_id = "submit_ticket_button"
  /\ ~isEmailEmpty(b) /\ ~isSubjectEmpty(b)
  /\ ~ThrowsTypeError(b)
  /\ ~MissingOtherFields(b)

\* Bodies whose unread fields are normalised: a submission rejected at the
\* first validation never reads description, product_id or conversationId,
\* one rejected at the second never reads conversationId, one that throws
\* uses neither description nor conversationId.
Bodies ==
  OtherBodies \cup
  { b \in TicketBodies :
      /\ (isEmailEmpty(b) \/ isSubjectEmpty(b)) =>
            (b.description = "text" /\ b.product_id = "7" /\ b.conversationId = "")
      /\ MissingOtherFields(b) => b.conversationId = ""
      /\ ThrowsTypeError(b) => (b.description = "text" /\ b.conversationId = "") }

----------------------------------------------------------------------------
\* ticketTracker: a Map.

has(m, e) == e \in DOMAIN m

set(m, e, rec) == [x \in DOMAIN m \cup {e} |-> IF x = e THEN rec ELSE m[x]]

delete(m, e) == [x \in DOMAIN m \ {e} |-> m[x]]

\* The three record shapes the code writes.  by is the writing request.
InProgressRec(r) ==
  [inProgress |-> TRUE, stamp |-> "startedAt", ticketId |-> 0, error |-> "", by |-> r]

CompletedRec(r, id) ==
  [inProgress |-> FALSE, stamp |-> "createdAt", ticketId |-> id, error |-> "", by |-> r]

\* FailedRec that leaves the in-progress flag set beside the error.
FailedRecStaysInProgress(r, msg) ==
  [inProgress |-> TRUE, stamp |-> "createdAt", ticketId |-> 0, error |-> msg, by |-> r]

FailedRec(r, msg) ==
  [inProgress |-> FALSE, stamp |-> "createdAt", ticketId |-> 0, error |-> msg, by |-> r]

\* What a fetchWithRetry call has given its caller: nothing yet, the response
\* of its call number of, or the error of its call number of.
NoResult == [kind |-> "none", of |-> 0]

Response(k) == [kind |-> "response", of |-> k]

Failure(k) == [kind |-> "error", of |-> k]

----------------------------------------------------------------------------
Init ==
  /\ ticketTracker = << >>
  /\ locals = ""
  /\ body = [r \in Reqs |-> NoBody]
  /\ hpc = [r \in Reqs |-> "idle"]
  /\ tpc = [r \in Reqs |-> "off"]
  /\ bpc = [r \in Reqs |-> "idle"]
  /\ responseSent = [r \in Reqs |-> FALSE]
  /\ resp = [r \in Reqs |-> << >>]
  /\ bgErr = [r \in Reqs |-> ""]
  /\ bgTicket = [r \in Reqs |-> 0]
  /\ notes = [r \in Reqs |-> << >>]
  /\ log = [r \in Reqs |-> << >>]
  /\ retries = 0 /\ initialDelay = 0 /\ attempts = 0 /\ currentDelay = 0
  /\ fpc = "idle" /\ calls = 0 /\ waits = << >> /\ result = NoResult
  /\ description = << >> /\ previous = << >> /\ conversation = ""
  /\ merged = 0

----------------------------------------------------------------------------
\* The views a response can carry.
View(name, emailErr, subjectErr) ==
  [view |-> name, emailErr |-> emailErr, subjectErr |-> subjectErr,
   recent |-> "none"]

Plain(name) == View(name, FALSE, FALSE)

\* The view with its recent-tickets section filled from the outcome of the
\* fetch: the tickets, or the text 'No recent tickets' when the fetch threw.
RecentItems(v, out) ==
  [v EXCEPT !.recent = IF out = "ok" THEN "list" ELSE "empty"]

\* What a recent-tickets fetch adds to the log of r.
FetchEvents(out, ev) == IF out = "fail" THEN <<ev>> ELSE << >>

\* res.json(...) on r: one more emission on the response object.
Emit(r, v) == [resp EXCEPT ![r] = Append(@, v)]

Logged(r, evs) == [log EXCEPT ![r] = @ \o evs]

\* clearTimeout(timeoutId): a timer that has not fired yet never fires.
clearTimeout(r) == [tpc EXCEPT ![r] = IF @ = "armed" THEN "cleared" ELSE @]

\* sendResponse without the test of the flag.
sendResponseUnguarded(r, v) ==
  /\ responseSent' = [responseSent EXCEPT ![r] = TRUE]
  /\ tpc' = clearTimeout(r)
  /\ resp' = Emit(r, v)

\* sendResponse(responseData): emits only while the flag is unset.
sendResponse(r, v) ==
  IF ~responseSent[r]
  THEN /\ responseSent' = [responseSent EXCEPT ![r] = TRUE]
       /\ tpc' = clearTimeout(r)
       /\ resp' = Emit(r, v)
  ELSE UNCHANGED <<responseSent, tpc, resp>>

\* What sendResponse adds to the log of r.
SentEvents(r) == IF ~responseSent[r] THEN <<"respond">> ELSE << >>

\* What the framework answers when the promise of the handler rejects: a
\* 500 page, no canvas.
FrameworkError == Plain("express_500")

\* A response the widget can render: one that carries a canvas.
Renderable(v) == v # FrameworkError

\* res.json / res.status(500).json called directly: no flag read or written,
\* the timer is left running.
DirectJson(r, v) ==
  /\ resp' = Emit(r, v)
  /\ UNCHANGED <<responseSent, tpc>>

----------------------------------------------------------------------------
\* A request reaches app.post('/api/submit'): the handler arms the timer,
\* stores the context in app.locals and runs up to its first await.  When
\* the branch throws, the outer catch calls sendResponse, a const of the try
\* block that is not in scope there: the ReferenceError rejects the promise
\* of the handler and the framework answers; flag and timer stay as they are.
Submit(r, b) ==
  /\ hpc[r] = "idle"
  /\ \A q \in Reqs : q < r => hpc[q] # "idle"
  /\ body' = [body EXCEPT ![r] = b]
  /\ locals' = b.contact
  /\ UNCHANGED <<ticketTracker, bpc, bgErr, bgTicket, notes>>
  /\ UNCHANGED <<fetchVars, mergeVars>>
  /\ CASE b.component_id = "create_ticket" ->
            /\ hpc' = [hpc EXCEPT ![r] = "meta"]
            /\ tpc' = [tpc EXCEPT ![r] = "armed"]
            /\ UNCHANGED <<responseSent, resp, log>>
       [] b.component_id = "submit_ticket_button"
            /\ (isEmailEmpty(b) \/ isSubjectEmpty(b)) ->
            /\ hpc' = [hpc EXCEPT ![r] = "refetch"]
            /\ tpc' = [tpc EXCEPT ![r] = "armed"]
            /\ UNCHANGED <<responseSent, resp, log>>
       [] ThrowsTypeError(b) ->
            /\ hpc' = [hpc EXCEPT ![r] = "done"]
            /\ tpc' = [tpc EXCEPT ![r] = "armed"]
            /\ resp' = Emit(r, FrameworkError)
            /\ log' = Logged(r, <<"throw", "respond">>)
            /\ UNCHANGED responseSent
       [] b.component_id = "submit_ticket_button"
            /\ ~(isEmailEmpty(b) \/ isSubjectEmpty(b))
            /\ ~ThrowsTypeError(b)
            /\ MissingOtherFields(b) ->
            /\ hpc' = [hpc EXCEPT ![r] = "done"]
            /\ responseSent' = [responseSent EXCEPT ![r] = TRUE]
            /\ tpc' = [tpc EXCEPT ![r] = "cleared"]
            /\ resp' = Emit(r, Plain("fill_required"))
            /\ log' = Logged(r, <<"respond">>)
       [] Accepted(b) ->
            /\ hpc' = [hpc EXCEPT ![r] = "recents"]
            /\ tpc' = [tpc EXCEPT ![r] = "armed"]
            /\ UNCHANGED <<responseSent, resp, log>>
       [] b.component_id = "cancel" /\ b.contact # "" ->
            /\ hpc' = [hpc EXCEPT ![r] = "cancelFetch"]
            /\ tpc' = [tpc EXCEPT ![r] = "armed"]
            /\ UNCHANGED <<responseSent, resp, log>>
       [] b.component_id = "cancel" /\ b.contact = "" ->
            /\ hpc' = [hpc EXCEPT ![r] = "done"]
            /\ responseSent' = [responseSent EXCEPT ![r] = TRUE]
            /\ tpc' = [tpc EXCEPT ![r] = "cleared"]
            /\ resp' = Emit(r, RecentItems(Plain("home"), "fail"))
            /\ log' = Logged(r, <<"respond">>)
       [] b.component_id \in {"retry_button", "other"} ->
            /\ hpc' = [hpc EXCEPT ![r] = "done"]
            /\ tpc' = [tpc EXCEPT ![r] = "armed"]
            /\ resp' = Emit(r, Plain("home"))
            /\ log' = Logged(r, <<"respond">>)
            /\ UNCHANGED responseSent

\* create_ticket: the metadata fetches (fetchWithRetry) have returned or thrown.
MetaReturn(r, out) ==
  /\ hpc[r] = "meta"
  /\ hpc' = [hpc EXCEPT ![r] = "done"]
  /\ IF out = "ok"
     THEN /\ sendResponse(r, Plain("form"))
          /\ log' = Logged(r, SentEvents(r))
     ELSE /\ DirectJson(r, Plain("retry_error"))
          /\ log' = Logged(r, <<"respond">>)
  /\ UNCHANGED <<ticketTracker, locals, body, bpc, bgErr, bgTicket, notes>>
  /\ UNCHANGED <<fetchVars, mergeVars>>

\* RefetchReturn that flags a field only when it is empty before trimming.
RefetchReturnFlagsUntrimmed(r, out) ==
  /\ hpc[r] = "refetch"
  /\ hpc' = [hpc EXCEPT ![r] = "done"]
  /\ sendResponse(r, View("error_form", body[r].email = "", body[r].subject = ""))
  /\ log' = Logged(r, (IF out = "fail" THEN <<"refetch_failed">> ELSE << >>)
                        \o SentEvents(r))
  /\ UNCHANGED <<ticketTracker, locals, body, bpc, bgErr, bgTicket, notes>>
  /\ UNCHANGED <<fetchVars, mergeVars>>

\* submit_ticket_button, validation failed: the dropdown re-fetch has returned
\* or thrown (the catch only logs); the error form is sent.
RefetchReturn(r, out) ==
  /\ hpc[r] = "refetch"
  /\ hpc' = [hpc EXCEPT ![r] = "done"]
  /\ sendResponse(r, View("error_form", isEmailEmpty(body[r]), isSubjectEmpty(body[r])))
  /\ log' = Logged(r, (IF out = "fail" THEN <<"refetch_failed">> ELSE << >>)
                        \o SentEvents(r))
  /\ UNCHANGED <<ticketTracker, locals, body, bpc, bgErr, bgTicket, notes>>
  /\ UNCHANGED <<fetchVars, mergeVars>>

\* RecentsReturn that returns without detaching the background task when the
\* response was already sent by the timer.
RecentsReturnNoDetachAfterTimeout(r, out) ==
  /\ hpc[r] = "recents"
  /\ hpc' = [hpc EXCEPT ![r] = "done"]
  /\ ticketTracker' =
       IF body[r].email # ""
       THEN set(ticketTracker, body[r].email, InProgressRec(r))
       ELSE ticketTracker
  /\ sendResponse(r, RecentItems(Plain("accepted"), out))
  /\ bpc' = [bpc EXCEPT ![r] = IF responseSent[r] THEN "done" ELSE "scheduled"]
  /\ log' = Logged(r, FetchEvents(out, "recents_failed")
                        \o (IF body[r].email # "" THEN <<"mark">> ELSE << >>)
                        \o SentEvents(r)
                        \o (IF responseSent[r] THEN << >> ELSE <<"detach">>))
  /\ UNCHANGED <<locals, body, bgErr, bgTicket, notes>>
  /\ UNCHANGED <<fetchVars, mergeVars>>

\* RecentsReturn that leaves an InProgress record of the identity alone and
\* starts no task of its own.
RecentsReturnKeepsInProgress(r, out) ==
  /\ hpc[r] = "recents"
  /\ hpc' = [hpc EXCEPT ![r] = "done"]
  /\ sendResponse(r, RecentItems(Plain("accepted"), out))
  /\ IF has(ticketTracker, body[r].email) /\ ticketTracker[body[r].email].inProgress
     THEN /\ UNCHANGED <<ticketTracker, bpc>>
          /\ log' = Logged(r, FetchEvents(out, "recents_failed") \o SentEvents(r))
     ELSE /\ ticketTracker' = set(ticketTracker, body[r].email, InProgressRec(r))
          /\ bpc' = [bpc EXCEPT ![r] = "scheduled"]
          /\ log' = Logged(r, FetchEvents(out, "recents_failed")
                                \o <<"mark">> \o SentEvents(r) \o <<"detach">>)
  /\ UNCHANGED <<locals, body, bgErr, bgTicket, notes>>
  /\ UNCHANGED <<fetchVars, mergeVars>>

\* RecentsReturn in which a failed fetch ends the handler with an error view.
RecentsReturnFailsOnFetchError(r, out) ==
  /\ hpc[r] = "recents"
  /\ hpc' = [hpc EXCEPT ![r] = "done"]
  /\ IF out = "fail"
     THEN /\ sendResponse(r, Plain("error"))
          /\ log' = Logged(r, <<"recents_failed">> \o SentEvents(r))
          /\ UNCHANGED <<ticketTracker, bpc>>
     ELSE /\ ticketTracker' = set(ticketTracker, body[r].email, InProgressRec(r))
          /\ sendResponse(r, RecentItems(Plain("accepted"), out))
          /\ bpc' = [bpc EXCEPT ![r] = "scheduled"]
          /\ log' = Logged(r, <<"mark">> \o SentEvents(r) \o <<"detach">>)
  /\ UNCHANGED <<locals, body, bgErr, bgTicket, notes>>
  /\ UNCHANGED <<fetchVars, mergeVars>>

\* RecentsReturn that answers with res.json, without the flag.
RecentsReturnRespondsDirectly(r, out) ==
  /\ hpc[r] = "recents"
  /\ hpc' = [hpc EXCEPT ![r] = "done"]
  /\ ticketTracker' =
       IF body[r].email # ""
       THEN set(ticketTracker, body[r].email, InProgressRec(r))
       ELSE ticketTracker
  /\ DirectJson(r, RecentItems(Plain("accepted"), out))
  /\ bpc' = [bpc EXCEPT ![r] = "scheduled"]
  /\ log' = Logged(r, FetchEvents(out, "recents_failed")
                        \o (IF body[r].email # "" THEN <<"mark">> ELSE << >>)
                        \o <<"respond", "detach">>)
  /\ UNCHANGED <<locals, body, bgErr, bgTicket, notes>>
  /\ UNCHANGED <<fetchVars, mergeVars>>

\* submit_ticket_button, accepted: the recent-tickets fetch has returned or
\* thrown; mark in-progress, respond, detach the background task.
RecentsReturn(r, out) ==
  /\ hpc[r] = "recents"
  /\ hpc' = [hpc EXCEPT ![r] = "done"]
  /\ ticketTracker' =
       IF body[r].email # ""
       THEN set(ticketTracker, body[r].email, InProgressRec(r))
       ELSE ticketTracker
  /\ sendResponse(r, RecentItems(Plain("accepted"), out))
  /\ bpc' = [bpc EXCEPT ![r] = "scheduled"]
  /\ log' = Logged(r, FetchEvents(out, "recents_failed")
                        \o (IF body[r].email # "" THEN <<"mark">> ELSE << >>)
                        \o SentEvents(r) \o <<"detach">>)
  /\ UNCHANGED <<locals, body, bgErr, bgTicket, notes>>
  /\ UNCHANGED <<fetchVars, mergeVars>>

\* cancel: the recent-tickets fetch has returned or thrown.
CancelReturn(r, out) ==
  /\ hpc[r] = "cancelFetch"
  /\ hpc' = [hpc EXCEPT ![r] = "done"]
  /\ sendResponse(r, RecentItems(Plain("home"), out))
  /\ log' = Logged(r, FetchEvents(out, "recents_failed") \o SentEvents(r))
  /\ UNCHANGED <<ticketTracker, locals, body, bpc, bgErr, bgTicket, notes>>
  /\ UNCHANGED <<fetchVars, mergeVars>>

----------------------------------------------------------------------------
\* The deadline timer of r (setTimeout(..., 9000)).

\* The identity the timer callback uses.
TimerEmail(r) == IF body[r].contact # "" THEN body[r].contact ELSE locals

\* TimerFire without the test of component_id.
TimerFireMarksAnyAction(r) ==
  /\ tpc[r] = "armed"
  /\ \A q \in Reqs : q < r => tpc[q] # "armed"
  /\ IF ~responseSent[r]
     THEN /\ responseSent' = [responseSent EXCEPT ![r] = TRUE]
          /\ ticketTracker' =
               IF TimerEmail(r) # ""
               THEN set(ticketTracker, TimerEmail(r), InProgressRec(r))
               ELSE ticketTracker
          /\ IF TimerEmail(r) # ""
             THEN /\ tpc' = [tpc EXCEPT ![r] = "fetch"]
                  /\ resp' = resp
                  /\ log' = Logged(r, <<"timeout", "tmark">>)
             ELSE /\ tpc' = [tpc EXCEPT ![r] = "done"]
                  /\ resp' = Emit(r, Plain("fallback"))
                  /\ log' = Logged(r, <<"timeout", "respond">>)
     ELSE /\ tpc' = [tpc EXCEPT ![r] = "done"]
          /\ UNCHANGED <<responseSent, ticketTracker, resp, log>>
  /\ UNCHANGED <<locals, body, hpc, bpc, bgErr, bgTicket, notes>>
  /\ UNCHANGED <<fetchVars, mergeVars>>

\* TimerFire for a timer that sendResponse does not stop and a callback that
\* does not read the flag.
TimerFireAfterResponse(r) ==
  /\ tpc[r] \in {"armed", "cleared"}
  /\ \A q \in Reqs : q < r => tpc[q] # "armed"
  /\ responseSent' = [responseSent EXCEPT ![r] = TRUE]
  /\ ticketTracker' =
       IF TimerEmail(r) # "" /\ body[r].component_id = "submit_ticket_button"
       THEN set(ticketTracker, TimerEmail(r), InProgressRec(r))
       ELSE ticketTracker
  /\ IF TimerEmail(r) # ""
     THEN /\ tpc' = [tpc EXCEPT ![r] = "fetch"]
          /\ resp' = resp
          /\ log' = Logged(r,
               IF body[r].component_id = "submit_ticket_button"
               THEN <<"timeout", "tmark">> ELSE <<"timeout">>)
     ELSE /\ tpc' = [tpc EXCEPT ![r] = "done"]
          /\ resp' = Emit(r, Plain("fallback"))
          /\ log' = Logged(r, <<"timeout", "respond">>)
  /\ UNCHANGED <<locals, body, hpc, bpc, bgErr, bgTicket, notes>>
  /\ UNCHANGED <<fetchVars, mergeVars>>

\* The callback runs: timers of equal delay fire in the order they were set.
\* It runs up to its await of the recent-tickets fetch, or to its res.json
\* when there is no email to fetch for.
TimerFire(r) ==
  /\ tpc[r] = "armed"
  /\ \A q \in Reqs : q < r => tpc[q] # "armed"
  /\ IF ~responseSent[r]
     THEN /\ responseSent' = [responseSent EXCEPT ![r] = TRUE]
          /\ ticketTracker' =
               IF TimerEmail(r) # "" /\ body[r].component_id = "submit_ticket_button"
               THEN set(ticketTracker, TimerEmail(r), InProgressRec(r))
               ELSE ticketTracker
          /\ IF TimerEmail(r) # ""
             THEN /\ tpc' = [tpc EXCEPT ![r] = "fetch"]
                  /\ resp' = resp
                  /\ log' = Logged(r,
                       IF body[r].component_id = "submit_ticket_button"
                       THEN <<"timeout", "tmark">> ELSE <<"timeout">>)
             ELSE /\ tpc' = [tpc EXCEPT ![r] = "done"]
                  /\ resp' = Emit(r, Plain("fallback"))
                  /\ log' = Logged(r, <<"timeout", "respond">>)
     ELSE /\ tpc' = [tpc EXCEPT ![r] = "done"]
          /\ UNCHANGED <<responseSent, ticketTracker, resp, log>>
  /\ UNCHANGED <<locals, body, hpc, bpc, bgErr, bgTicket, notes>>
  /\ UNCHANGED <<fetchVars, mergeVars>>

\* The callback's recent-tickets fetch has returned or thrown: res.json.
TimerFetchReturn(r, out) ==
  /\ tpc[r] = "fetch"
  /\ tpc' = [tpc EXCEPT ![r] = "done"]
  /\ resp' = Emit(r, RecentItems(Plain("fallback"), out))
  /\ log' = Logged(r, FetchEvents(out, "tfetch_failed") \o <<"respond">>)
  /\ UNCHANGED <<ticketTracker, locals, body, hpc, bpc, responseSent,
                 bgErr, bgTicket, notes>>
  /\ UNCHANGED <<fetchVars, mergeVars>>

----------------------------------------------------------------------------
\* The helpers of conversation-helper.js, by their outcomes.

\* fetchIntercomConversation + formatConversationAsHtml: markup or a failure.
TranscriptOutcomes == Outcomes

\* addConversationTranscriptToTicket: the ticket data or a failure.
AddTranscriptOutcomes == Outcomes

\* createFreshdeskTicket: a ticket or a failure after the retries.
CreateOutcomes == Outcomes

\* The id the ticketing API gives the ticket of request r.
TicketIdOf(r) == 40 + r

\* postIntercomNote(conversationId, noteBody): called, not yet returned.
Note(r, kind, ref) ==
  [conv |-> body[r].conversationId, kind |-> kind, ref |-> ref, posted |-> FALSE]

\* BgCatch with the tracker write nested in the test of the conversation id.
BgCatchNoTrackerWithoutConversation(r, msg) ==
  /\ bgErr' = [bgErr EXCEPT ![r] = msg]
  /\ IF body[r].conversationId # ""
     THEN /\ notes' = [notes EXCEPT ![r] = Append(@, Note(r, "failure", msg))]
          /\ bpc' = [bpc EXCEPT ![r] = "noteFailure"]
          /\ log' = Logged(r, <<"note">>)
          /\ UNCHANGED ticketTracker
     ELSE /\ bpc' = [bpc EXCEPT ![r] = "done"]
          /\ log' = Logged(r, <<"terminal">>)
          /\ UNCHANGED <<ticketTracker, notes>>

\* BgCatch that removes the record of a failed submission.
BgCatchDeletesRecord(r, msg) ==
  /\ bgErr' = [bgErr EXCEPT ![r] = msg]
  /\ IF body[r].conversationId # ""
     THEN /\ notes' = [notes EXCEPT ![r] = Append(@, Note(r, "failure", msg))]
          /\ bpc' = [bpc EXCEPT ![r] = "noteFailure"]
          /\ log' = Logged(r, <<"note">>)
          /\ UNCHANGED ticketTracker
     ELSE /\ bpc' = [bpc EXCEPT ![r] = "done"]
          /\ ticketTracker' = delete(ticketTracker, body[r].email)
          /\ log' = Logged(r, <<"terminal">>)
          /\ UNCHANGED notes

\* BgCatch that runs ticket creation a second time after its first failure.
BgCatchRetriesOnce(r, msg) ==
  IF msg = "create error"
     /\ Cardinality({i \in 1..Len(log[r]) : log[r][i] = "create"}) < 2
  THEN /\ bpc' = [bpc EXCEPT ![r] = "create"]
       /\ log' = Logged(r, <<"create">>)
       /\ UNCHANGED <<bgErr, notes, ticketTracker>>
  ELSE /\ bgErr' = [bgErr EXCEPT ![r] = msg]
       /\ bpc' = [bpc EXCEPT ![r] = "done"]
       /\ ticketTracker' = set(ticketTracker, body[r].email, FailedRec(r, msg))
       /\ log' = Logged(r, <<"terminal">>)
       /\ UNCHANGED notes

\* The catch of the background task, up to its await of postIntercomNote or,
\* with no conversation id, to its end.
BgCatch(r, msg) ==
  /\ bgErr' = [bgErr EXCEPT ![r] = msg]
  /\ IF body[r].conversationId # ""
     THEN /\ notes' = [notes EXCEPT ![r] = Append(@, Note(r, "failure", msg))]
          /\ bpc' = [bpc EXCEPT ![r] = "noteFailure"]
          /\ log' = Logged(r, <<"note">>)
          /\ UNCHANGED ticketTracker
     ELSE /\ bpc' = [bpc EXCEPT ![r] = "done"]
          /\ ticketTracker' =
               IF body[r].email # ""
               THEN set(ticketTracker, body[r].email, FailedRec(r, msg))
               ELSE ticketTracker
          /\ log' = Logged(r, <<"terminal">>)
          /\ UNCHANGED notes

\* The setTimeout(..., 0) callback starts: up to its first await.
BgStart(r) ==
  /\ bpc[r] = "scheduled"
  /\ IF body[r].conversationId # ""
     THEN /\ bpc' = [bpc EXCEPT ![r] = "transcript"]
          /\ log' = Logged(r, <<"transcript">>)
     ELSE /\ bpc' = [bpc EXCEPT ![r] = "create"]
          /\ log' = Logged(r, <<"create">>)
  /\ UNCHANGED <<ticketTracker, locals, body, hpc, tpc, responseSent, resp,
                 bgErr, bgTicket, notes>>
  /\ UNCHANGED <<fetchVars, mergeVars>>

\* fetchIntercomConversation / formatConversationAsHtml returned or threw; the
\* inner catch only logs.  conversationId is set here, so the task goes on to
\* await addConversationTranscriptToTicket.
BgTranscriptReturn(r, out) ==
  /\ bpc[r] = "transcript"
  /\ bpc' = [bpc EXCEPT ![r] = "addTranscript"]
  /\ log' = Logged(r, <<IF out = "ok" THEN "transcript_ok" ELSE "transcript_failed",
                        "addTranscript">>)
  /\ UNCHANGED <<ticketTracker, locals, body, hpc, tpc, responseSent, resp,
                 bgErr, bgTicket, notes>>
  /\ UNCHANGED <<fetchVars, mergeVars>>

\* addConversationTranscriptToTicket returned or threw; it is awaited outside
\* the inner try, so a failure goes to the catch of the task.
BgAddTranscriptReturn(r, out) ==
  /\ bpc[r] = "addTranscript"
  /\ IF out = "ok"
     THEN /\ bpc' = [bpc EXCEPT ![r] = "create"]
          /\ log' = Logged(r, <<"create">>)
          /\ UNCHANGED <<ticketTracker, bgErr, notes>>
     ELSE BgCatch(r, "transcript error")
  /\ UNCHANGED <<locals, body, hpc, tpc, responseSent, resp, bgTicket>>
  /\ UNCHANGED <<fetchVars, mergeVars>>

\* createFreshdeskTicket returned a ticket or threw.
BgCreateReturn(r, out) ==
  /\ bpc[r] = "create"
  /\ IF out = "ok"
     THEN /\ bgTicket' = [bgTicket EXCEPT ![r] = TicketIdOf(r)]
          /\ UNCHANGED bgErr
          /\ IF body[r].conversationId # ""
             THEN /\ notes' = [notes EXCEPT ![r] =
                                 Append(@, Note(r, "success", TicketIdOf(r)))]
                  /\ bpc' = [bpc EXCEPT ![r] = "noteSuccess"]
                  /\ log' = Logged(r, <<"created", "note">>)
                  /\ UNCHANGED ticketTracker
             ELSE /\ bpc' = [bpc EXCEPT ![r] = "done"]
                  /\ ticketTracker' =
                       IF body[r].email # ""
                       THEN set(ticketTracker, body[r].email,
                                CompletedRec(r, TicketIdOf(r)))
                       ELSE ticketTracker
                  /\ log' = Logged(r, <<"created", "terminal">>)
                  /\ UNCHANGED notes
     ELSE /\ BgCatch(r, "create error")
          /\ UNCHANGED bgTicket
  /\ UNCHANGED <<locals, body, hpc, tpc, responseSent, resp>>
  /\ UNCHANGED <<fetchVars, mergeVars>>

\* BgNoteReturn that writes the tracker only when the note was posted.
BgNoteReturnSkipsOnNoteFailure(r, out) ==
  /\ bpc[r] \in {"noteSuccess", "noteFailure"}
  /\ notes' = [notes EXCEPT ![r][Len(notes[r])].posted = (out = "ok")]
  /\ ticketTracker' =
       IF body[r].email = "" \/ out # "ok" THEN ticketTracker
       ELSE IF bpc[r] = "noteSuccess"
            THEN set(ticketTracker, body[r].email, CompletedRec(r, bgTicket[r]))
            ELSE set(ticketTracker, body[r].email, FailedRec(r, bgErr[r]))
  /\ bpc' = [bpc EXCEPT ![r] = "done"]
  /\ log' = Logged(r, <<"terminal">>)
  /\ UNCHANGED <<locals, body, hpc, tpc, responseSent, resp, bgErr, bgTicket>>
  /\ UNCHANGED <<fetchVars, mergeVars>>

\* BgNoteReturn in which a failed success note throws into the catch of the
\* task, which posts the failure note.
BgNoteReturnThrowsOnNoteFailure(r, out) ==
  /\ bpc[r] \in {"noteSuccess", "noteFailure"}
  /\ IF bpc[r] = "noteSuccess" /\ out = "fail"
     THEN /\ notes' = [notes EXCEPT ![r] = Append(@, Note(r, "failure", "note error"))]
          /\ bgErr' = [bgErr EXCEPT ![r] = "note error"]
          /\ bpc' = [bpc EXCEPT ![r] = "noteFailure"]
          /\ log' = Logged(r, <<"note">>)
          /\ UNCHANGED ticketTracker
     ELSE /\ notes' = [notes EXCEPT ![r][Len(notes[r])].posted = (out = "ok")]
          /\ ticketTracker' =
               IF body[r].email = "" THEN ticketTracker
               ELSE IF bpc[r] = "noteSuccess"
                    THEN set(ticketTracker, body[r].email, CompletedRec(r, bgTicket[r]))
                    ELSE set(ticketTracker, body[r].email, FailedRec(r, bgErr[r]))
          /\ bpc' = [bpc EXCEPT ![r] = "done"]
          /\ log' = Logged(r, <<"terminal">>)
          /\ UNCHANGED bgErr
  /\ UNCHANGED <<locals, body, hpc, tpc, responseSent, resp, bgTicket>>
  /\ UNCHANGED <<fetchVars, mergeVars>>

\* BgNoteReturn that leaves a terminal record of the identity in place.
BgNoteReturnKeepsTerminalRecord(r, out) ==
  /\ bpc[r] \in {"noteSuccess", "noteFailure"}
  /\ notes' = [notes EXCEPT ![r][Len(notes[r])].posted = (out = "ok")]
  /\ ticketTracker' =
       IF body[r].email = "" THEN ticketTracker
       ELSE IF has(ticketTracker, body[r].email)
               /\ ~ticketTracker[body[r].email].inProgress
            THEN ticketTracker
            ELSE IF bpc[r] = "noteSuccess"
                 THEN set(ticketTracker, body[r].email, CompletedRec(r, bgTicket[r]))
                 ELSE set(ticketTracker, body[r].email, FailedRec(r, bgErr[r]))
  /\ bpc' = [bpc EXCEPT ![r] = "done"]
  /\ log' = Logged(r, <<"terminal">>)
  /\ UNCHANGED <<locals, body, hpc, tpc, responseSent, resp, bgErr, bgTicket>>
  /\ UNCHANGED <<fetchVars, mergeVars>>

\* BgNoteReturn that records a note that could not be posted as a failure.
BgNoteReturnRecordsNoteFailure(r, out) ==
  /\ bpc[r] \in {"noteSuccess", "noteFailure"}
  /\ notes' = [notes EXCEPT ![r][Len(notes[r])].posted = (out = "ok")]
  /\ ticketTracker' =
       IF body[r].email = "" THEN ticketTracker
       ELSE IF bpc[r] = "noteSuccess" /\ out = "ok"
            THEN set(ticketTracker, body[r].email, CompletedRec(r, bgTicket[r]))
            ELSE set(ticketTracker, body[r].email,
                     FailedRec(r, IF out = "ok" THEN bgErr[r] ELSE "note error"))
  /\ bpc' = [bpc EXCEPT ![r] = "done"]
  /\ log' = Logged(r, <<"terminal">>)
  /\ UNCHANGED <<locals, body, hpc, tpc, responseSent, resp, bgErr, bgTicket>>
  /\ UNCHANGED <<fetchVars, mergeVars>>

\* postIntercomNote returned (the data, or null after an upstream error: it
\* never throws); the terminal tracker write follows.
BgNoteReturn(r, out) ==
  /\ bpc[r] \in {"noteSuccess", "noteFailure"}
  /\ notes' = [notes EXCEPT ![r][Len(notes[r])].posted = (out = "ok")]
  /\ ticketTracker' =
       IF body[r].email = "" THEN ticketTracker
       ELSE IF bpc[r] = "noteSuccess"
            THEN set(ticketTracker, body[r].email, CompletedRec(r, bgTicket[r]))
            ELSE set(ticketTracker, body[r].email, FailedRec(r, bgErr[r]))
  /\ bpc' = [bpc EXCEPT ![r] = "done"]
  /\ log' = Logged(r, <<"terminal">>)
  /\ UNCHANGED <<locals, body, hpc, tpc, responseSent, resp, bgErr, bgTicket>>
  /\ UNCHANGED <<fetchVars, mergeVars>>

----------------------------------------------------------------------------
\* Initialize that clears the record of e whatever its state.
InitializeClearsAnyRecord(e) ==
  /\ ticketTracker' =
       IF e # "" /\ has(ticketTracker, e)
       THEN delete(ticketTracker, e)
       ELSE ticketTracker
  /\ locals' = e
  /\ UNCHANGED <<body, hpc, tpc, bpc, responseSent, resp, bgErr, bgTicket,
                 notes, log>>
  /\ UNCHANGED <<fetchVars, mergeVars>>

\* Initialize that also abandons the background tasks working for e.
InitializeCancelsTask(e) ==
  /\ ticketTracker' =
       IF e # "" /\ has(ticketTracker, e) /\ ticketTracker[e].inProgress
       THEN delete(ticketTracker, e)
       ELSE ticketTracker
  /\ locals' = e
  /\ bpc' = [r \in Reqs |->
               IF e # "" /\ body[r].email = e /\ bpc[r] \notin {"idle", "done"}
               THEN "done" ELSE bpc[r]]
  /\ UNCHANGED <<body, hpc, tpc, responseSent, resp, bgErr, bgTicket,
                 notes, log>>
  /\ UNCHANGED <<fetchVars, mergeVars>>

\* app.post('/api/initialize') for customer email e, up to its first await:
\* clears an in-progress record of e and stores the context.
Initialize(e) ==
  /\ ticketTracker' =
       IF e # "" /\ has(ticketTracker, e) /\ ticketTracker[e].inProgress
       THEN delete(ticketTracker, e)
       ELSE ticketTracker
  /\ locals' = e
  /\ UNCHANGED <<body, hpc, tpc, bpc, responseSent, resp, bgErr, bgTicket,
                 notes, log>>
  /\ UNCHANGED <<fetchVars, mergeVars>>

----------------------------------------------------------------------------
\* Every step other than the arrival of a request.
Steps ==
  \/ \E r \in Reqs, out \in Outcomes : MetaReturn(r, out)
  \/ \E r \in Reqs, out \in Outcomes : RefetchReturn(r, out)
  \/ \E r \in Reqs, out \in Outcomes : RecentsReturn(r, out)
  \/ \E r \in Reqs, out \in Outcomes : CancelReturn(r, out)
  \/ \E r \in Reqs : TimerFire(r)
  \/ \E r \in Reqs, out \in Outcomes : TimerFetchReturn(r, out)
  \/ \E r \in Reqs : BgStart(r)
  \/ \E r \in Reqs, out \in TranscriptOutcomes : BgTranscriptReturn(r, out)
  \/ \E r \in Reqs, out \in AddTranscriptOutcomes : BgAddTranscriptReturn(r, out)
  \/ \E r \in Reqs, out \in CreateOutcomes : BgCreateReturn(r, out)
  \/ \E r \in Reqs, out \in Outcomes : BgNoteReturn(r, out)

\* One submission with any body, interleaved with the initializer.
Next ==
  \/ \E b \in Bodies : Submit(1, b)
  \/ Steps
  \/ \E e \in MaybeEmail : Initialize(e)

Spec == Init /\ [][Next]_vars

\* Bodies of the submissions of one agent working on one contact: the
\* contact email and the form email are the same address.
PairBodies ==
  { b \in Bodies :
      /\ b.contact = "a@x"
      /\ b.subject # Whitespace
      /\ TicketSubmissionBody(b) => b.email \in {"", "a@x"} }

\* NReq submissions for the same contact, arriving in order and overlapping
\* freely, interleaved with the initializer run for that contact.
NextPair ==
  \/ \E r \in Reqs, b \in PairBodies : Submit(r, b)
  \/ Steps
  \/ Initialize("a@x")

SpecPair == Init /\ [][NextPair]_vars

\* The same system under fair scheduling: every pending outbound call
\* eventually returns and every pending timer or task callback eventually runs.
FairSpec == Spec /\ WF_vars(Steps)

----------------------------------------------------------------------------
\* fetchWithRetry(url, options = {}, retries = 3, initialDelay = 500).

DefaultRetries == 3

DefaultInitialDelay == 500

\* The cap of Math.min(currentDelay * 2, 10000), in milliseconds.
Cap == 10000

\* One millisecond in the time unit of the model, the microsecond: every
\* jittered delay the model can reach is a whole number of microseconds.
Unit == 1000

\* The largest retries argument of a call.
MaxRetries == 6

RetryCounts == 0..MaxRetries

\* The initialDelay arguments of a call: the default, half the cap, the cap
\* and twice the cap.
InitialDelays ==
  {DefaultInitialDelay * Unit, (Cap \div 2) * Unit, Cap * Unit,
   (Cap * 2) * Unit}

\* 0.8 + Math.random() * 0.4, in tenths: the two ends and the middle.
JitterDen == 10

JitterLow == 8

JitterHigh == 12

Jitters == {JitterLow, JitterDen, JitterHigh}

Min(a, b) == IF a <= b THEN a ELSE b

\* NextDelay without the cap on the doubled delay.
NextDelayUncapped(d, j) == (d * 2 * j) \div JitterDen

\* Math.min(currentDelay * 2, 10000) * (0.8 + Math.random() * 0.4)
NextDelay(d, j) == (Min(d * 2, Cap * Unit) * j) \div JitterDen

\* fetchWithRetry that applies the jitter to the initial delay as well.
fetchWithRetryJittersFirstDelay(n, d) ==
  /\ fpc = "idle"
  /\ retries' = n
  /\ initialDelay' = d
  /\ currentDelay' = (d * JitterHigh) \div JitterDen
  /\ attempts' = 0
  /\ calls' = 1
  /\ fpc' = "attempt"
  /\ UNCHANGED <<waits, result, orchVars, mergeVars>>

\* The call: it runs to its first await of axios (attempts = 0 <= retries).
fetchWithRetry(n, d) ==
  /\ fpc = "idle"
  /\ retries' = n
  /\ initialDelay' = d
  /\ currentDelay' = d
  /\ attempts' = 0
  /\ calls' = 1
  /\ fpc' = "attempt"
  /\ UNCHANGED <<waits, result, orchVars, mergeVars>>

\* axios resolved: return response.
AxiosResolves ==
  /\ fpc = "attempt"
  /\ result' = Response(calls)
  /\ fpc' = "returned"
  /\ UNCHANGED <<retries, initialDelay, attempts, currentDelay, calls, waits,
                 orchVars, mergeVars>>

\* AxiosRejects that gives up when attempts reaches retries.
AxiosRejectsGivesUpEarly ==
  /\ fpc = "attempt"
  /\ attempts' = attempts + 1
  /\ IF attempts' >= retries
     THEN /\ result' = Failure(calls)
          /\ fpc' = "thrown"
          /\ UNCHANGED waits
     ELSE /\ waits' = Append(waits, currentDelay)
          /\ fpc' = "wait"
          /\ UNCHANGED result
  /\ UNCHANGED <<retries, initialDelay, currentDelay, calls, orchVars, mergeVars>>

\* AxiosRejects that waits before it throws the last error.
AxiosRejectsWaitsBeforeThrow ==
  /\ fpc = "attempt"
  /\ attempts' = attempts + 1
  /\ waits' = Append(waits, currentDelay)
  /\ IF attempts' > retries
     THEN /\ result' = Failure(calls)
          /\ fpc' = "thrown"
     ELSE /\ fpc' = "wait"
          /\ UNCHANGED result
  /\ UNCHANGED <<retries, initialDelay, currentDelay, calls, orchVars, mergeVars>>

\* axios rejected (transport error, non-2xx status or its 10 s timeout): the
\* catch counts the attempt and throws the error or starts the wait.
AxiosRejects ==
  /\ fpc = "attempt"
  /\ attempts' = attempts + 1
  /\ IF attempts' > retries
     THEN /\ result' = Failure(calls)
          /\ fpc' = "thrown"
          /\ UNCHANGED waits
     ELSE /\ waits' = Append(waits, currentDelay)
          /\ fpc' = "wait"
          /\ UNCHANGED result
  /\ UNCHANGED <<retries, initialDelay, currentDelay, calls, orchVars, mergeVars>>

\* The wait is over: the delay is backed off with jitter j, the loop tests
\* attempts <= retries and makes the next axios call.
DelayElapsed(j) ==
  /\ fpc = "wait"
  /\ currentDelay' = NextDelay(currentDelay, j)
  /\ IF attempts <= retries
     THEN /\ calls' = calls + 1
          /\ fpc' = "attempt"
     ELSE /\ calls' = calls
          /\ fpc' = "returned"
  /\ UNCHANGED <<retries, initialDelay, attempts, waits, result, orchVars, mergeVars>>

\* One call of fetchWithRetry with any arguments, outcomes and jitter.
NextFetch ==
  \/ \E n \in RetryCounts, d \in InitialDelays : fetchWithRetry(n, d)
  \/ AxiosResolves
  \/ AxiosRejects
  \/ \E j \in Jitters : DelayElapsed(j)

SpecFetch == Init /\ [][NextFetch]_vars

----------------------------------------------------------------------------
\* The banner merge of app.post('/api/freshdesk/create-ticket').  A
\* description is a sequence of pieces of text.

\* The longest description a request carries, in pieces.
MaxLen == 3

\* The most create-ticket requests that resend the merged description.
MaxMerges == 3

Conversations == {"c1", "c2"}

\* 'Chat Transcript Added'
Anchor == "Chat Transcript Added"

\* '\n\n'
Blank == "blank line"

\* `Intercom Conversation URL: ${intercomUrl}`
UrlLine(c) == IF c = "c1" THEN "Intercom Conversation URL: c1"
                          ELSE "Intercom Conversation URL: c2"

UrlLines == {UrlLine(c) : c \in Conversations}

Pieces == {Anchor, Blank, UrlLine("c1"), "text"}

\* The descriptions a request carries (never empty: line 584).
Descriptions == UNION {[1..n -> Pieces] : n \in 1..MaxLen}

\* `Chat Transcript Added\n\nIntercom Conversation URL: ${intercomUrl}\n\n`
urlSection(c) == <<Anchor, Blank, UrlLine(c), Blank>>

\* String.prototype.trim: white space removed at both ends.
RECURSIVE trim(_)
trim(d) ==
  IF d = << >> THEN d
  ELSE IF Head(d) = Blank THEN trim(Tail(d))
  ELSE IF d[Len(d)] = Blank THEN trim(SubSeq(d, 1, Len(d) - 1))
  ELSE d

\* String.prototype.includes
includes(d, piece) == \E i \in 1..Len(d) : d[i] = piece

\* String.prototype.replace with a string pattern: the first occurrence only.
replace(d, piece, by) ==
  IF ~includes(d, piece) THEN d
  ELSE LET i == CHOOSE k \in 1..Len(d) :
                  d[k] = piece /\ \A l \in 1..(k - 1) : d[l] # piece
       IN  SubSeq(d, 1, i - 1) \o by \o SubSeq(d, i + 1, Len(d))

\* MergeBanner that overwrites a description holding the anchor.
MergeBannerOverwrites(d, c) ==
  IF d # << >> /\ includes(d, Anchor)
  THEN trim(urlSection(c))
  ELSE urlSection(c) \o d

\* The merge of the URL section into ticketData.description.
MergeBanner(d, c) ==
  IF d # << >> /\ includes(d, Anchor)
  THEN replace(d, Anchor, trim(urlSection(c)))
  ELSE urlSection(c) \o d

\* A create-ticket request with description d for conversation c reaches
\* the merge.
CreateTicket(d, c) ==
  /\ merged = 0
  /\ previous' = d
  /\ conversation' = c
  /\ description' = MergeBanner(d, c)
  /\ merged' = 1
  /\ UNCHANGED <<orchVars, fetchVars>>

\* A further create-ticket request carries the description of the last one.
CreateTicketAgain(c) ==
  /\ merged \in 1..(MaxMerges - 1)
  /\ previous' = description
  /\ conversation' = c
  /\ description' = MergeBanner(description, c)
  /\ merged' = merged + 1
  /\ UNCHANGED <<orchVars, fetchVars>>

NextMerge ==
  \/ \E d \in Descriptions, c \in Conversations : CreateTicket(d, c)
  \/ \E c \in Conversations : CreateTicketAgain(c)

SpecMerge == Init /\ [][NextMerge]_vars

----------------------------------------------------------------------------
\* Vocabulary of the properties.

InLog(r, ev) == \E i \in 1..Len(log[r]) : log[r][i] = ev

Count(r, ev) == Cardinality({i \in 1..Len(log[r]) : log[r][i] = ev})

\* ev1 occurs in the log of r, and no ev2 occurs before its first occurrence.
Before(r, ev1, ev2) ==
  \E i \in 1..Len(log[r]) :
    /\ log[r][i] = ev1
    /\ \A j \in 1..i : log[r][j] # ev2

\* The handler of r has returned and its timer can no longer run.
Quiet(r) == hpc[r] = "done" /\ tpc[r] \in {"cleared", "done"}

\* Nothing of r is pending any more.
Finished(r) == Quiet(r) /\ bpc[r] \in {"idle", "done"}

TicketSubmission(r) == body[r].component_id = "submit_ticket_button"

InvalidSubmission(r) ==
  TicketSubmission(r) /\ (isEmailEmpty(body[r]) \/ isSubjectEmpty(body[r]))

\* The records of the tracker last written by r.
RecordsBy(r) == {e \in DOMAIN ticketTracker : ticketTracker[e].by = r}

----------------------------------------------------------------------------
\* C1: every request to /api/submit gets exactly one response: each emission
\* happens with the response-already-sent flag set by it, no second emission
\* is ever made, and a request whose handler and timer are over has one.
C1_ExactlyOneResponse ==
  \A r \in Reqs :
    /\ Len(resp[r]) <= 1
    /\ Len(resp[r]) = 1 => responseSent[r]
    /\ Quiet(r) => Len(resp[r]) = 1

\* C2: for an accepted ticket submission the accepted response and the
\* deadline fallback response exclude each other: never both, and once the
\* handler and the timer are over exactly one of them was emitted.
C2_AcceptedXorFallback ==
  \A r \in Reqs :
    Accepted(body[r]) =>
      /\ Len(resp[r]) <= 1
      /\ \A i \in 1..Len(resp[r]) : resp[r][i].view \in {"accepted", "fallback"}
      /\ Quiet(r) => Len(resp[r]) = 1

\* C2 witness: the fallback answered an accepted submission whose handler
\* later ran its own sendResponse.
C2_Witness ==
  \E r \in Reqs :
    /\ Accepted(body[r]) /\ Quiet(r)
    /\ resp[r] = <<Plain("fallback")>>

\* C3: an accepted submission has its InProgress entry for the submitted
\* identity written before its response, and once everything of the
\* submission is over no record it wrote is still InProgress.
C3_InProgressThenTerminal ==
  \A r \in Reqs :
    Accepted(body[r]) =>
      /\ InLog(r, "respond") =>
           (Before(r, "mark", "respond") \/
              (Before(r, "tmark", "respond") /\ body[r].contact = body[r].email))
      /\ Finished(r) =>
           \A e \in RecordsBy(r) : ~ticketTracker[e].inProgress

\* C4: a ticket submission rejected at validation writes no tracker record,
\* starts no background task and makes no transcript, creation or notifier
\* call.
C4_InvalidLeavesNoTrace ==
  \A r \in Reqs :
    InvalidSubmission(r) =>
      /\ RecordsBy(r) = {}
      /\ ~InLog(r, "tmark") /\ ~InLog(r, "mark")
      /\ bpc[r] = "idle"
      /\ notes[r] = << >>
      /\ ~InLog(r, "transcript") /\ ~InLog(r, "create") /\ ~InLog(r, "note")

\* C5: when the deadline timer fires for an accepted submission before the
\* accepted response, the fallback marks the tracker InProgress and the
\* background task is started at that point.
C5_FallbackStartsBackground ==
  \A r \in Reqs :
    (Accepted(body[r]) /\ InLog(r, "timeout")) =>
      /\ InLog(r, "tmark")
      /\ bpc[r] # "idle"

\* C6: once the deadline timer has fired for a ticket submission with no
\* response sent, the response is emitted: it waits for no outbound call.
C6_FallbackEmitsAtDeadline ==
  \A r \in Reqs :
    (TicketSubmission(r) /\ InLog(r, "timeout")) => Len(resp[r]) >= 1

\* C7: the background task of every accepted submission is started when the
\* handler returns, whichever response path fired, and runs to exactly one
\* terminal tracker write.
C7_BackgroundRunsToTerminal ==
  /\ [](\A r \in Reqs :
          /\ (Accepted(body[r]) /\ hpc[r] = "done") => bpc[r] # "idle"
          /\ bpc[r] = "done" => Count(r, "terminal") = 1)
  /\ \A r \in Reqs :
       Accepted(body[r]) ~> (bpc[r] = "done" /\ Count(r, "terminal") = 1)

\* C7 witness: the fallback fired and the background task still reached its
\* terminal write.
C7_Witness ==
  \E r \in Reqs :
    /\ Accepted(body[r]) /\ InLog(r, "timeout")
    /\ resp[r] = <<Plain("fallback")>>
    /\ bpc[r] = "done" /\ InLog(r, "terminal")
    /\ RecordsBy(r) # {}

\* The notes of r of one kind that reference ref in r's conversation.
NoteCalls(r, kind, ref) ==
  {i \in 1..Len(notes[r]) :
     /\ notes[r][i].kind = kind
     /\ notes[r][i].ref = ref
     /\ notes[r][i].conv = body[r].conversationId}

\* The background task of r takes its last step.
BgEnds(r) == bpc[r] # "done" /\ bpc'[r] = "done"

\* No request after r is for the identity of r.
NoLaterSubmission(r) ==
  \A q \in Reqs :
    q > r => (body[q].email # body[r].email /\ body[q].contact # body[r].email)

\* C8 as stated, in runs where every submission made is an accepted one:
\* once everything is over, a submission with a conversation id whose ticket
\* T was created, and after which no submission for the same identity was
\* made, has its success note and the tracker holds Completed with ticketId T
\* for the submitted email.
C8_CompletedAbsentLaterSubmissions ==
  \A r \in Reqs :
    ( /\ bpc[r] = "done" /\ bgTicket[r] # 0
      /\ body[r].conversationId # ""
      /\ \A q \in Reqs : hpc[q] # "idle" => Accepted(body[q])
      /\ \A q \in Reqs : Finished(q)
      /\ NoLaterSubmission(r) ) =>
        /\ NoteCalls(r, "success", bgTicket[r]) # {}
        /\ has(ticketTracker, body[r].email)
        /\ ~ticketTracker[body[r].email].inProgress
        /\ ticketTracker[body[r].email].ticketId = bgTicket[r]

\* C8 amended: when ticket creation succeeded with id T for an accepted
\* submission with a conversation id, one success note referencing T is sent
\* to that conversation, the last step of the task writes Completed with
\* ticketId T under the submitted email, and the record stays so for as long
\* as no other submission writes that identity.
C8_SuccessNoteAndCompletedWrite ==
  /\ [](\A r \in Reqs :
          (bgTicket[r] # 0 /\ body[r].conversationId # "") =>
             /\ Cardinality(NoteCalls(r, "success", bgTicket[r])) = 1
             /\ Len(notes[r]) = 1)
  /\ [](\A r \in Reqs :
          ( /\ bpc[r] = "done" /\ bgTicket[r] # 0
            /\ has(ticketTracker, body[r].email)
            /\ ticketTracker[body[r].email].by = r ) =>
              ticketTracker[body[r].email] = CompletedRec(r, bgTicket[r]))
  /\ [][\A r \in Reqs :
          (BgEnds(r) /\ bgTicket'[r] # 0) =>
             /\ has(ticketTracker', body[r].email)
             /\ ticketTracker'[body[r].email] = CompletedRec(r, TicketIdOf(r))]_vars

\* C8 witness: the task of a submission with a conversation id has ended
\* after a successful creation; the note is out and the record is Completed.
C8_Witness ==
  \E r \in Reqs :
    /\ bpc[r] = "done" /\ bgTicket[r] = TicketIdOf(r)
    /\ body[r].conversationId # ""
    /\ NoteCalls(r, "success", TicketIdOf(r)) # {}
    /\ ticketTracker[body[r].email] = CompletedRec(r, TicketIdOf(r))

\* C9 as stated: when the background task of an accepted submission failed,
\* a failure note with the error text is posted to the conversation and the
\* tracker entry of the identity is Failed with the error message.
C9_FailureNoteAndFailed ==
  \A r \in Reqs :
    (bpc[r] = "done" /\ bgErr[r] # "") =>
      /\ NoteCalls(r, "failure", bgErr[r]) # {}
      /\ has(ticketTracker, body[r].email)
      /\ ~ticketTracker[body[r].email].inProgress
      /\ ticketTracker[body[r].email].error = bgErr[r]

\* C9 amended: when the background task failed at any step, a submission
\* with a conversation id gets one failure note with the error text in that
\* conversation (one without gets none), and in both cases the last step of
\* the task writes Failed with the error message under the submitted email,
\* which stays so for as long as no other submission writes that identity.
C9_FailureNoteAndFailedWrite ==
  /\ [](\A r \in Reqs :
          bgErr[r] # "" =>
             IF body[r].conversationId # ""
             THEN /\ Cardinality(NoteCalls(r, "failure", bgErr[r])) = 1
                  /\ Len(notes[r]) = 1
             ELSE notes[r] = << >>)
  /\ [](\A r \in Reqs :
          ( /\ bpc[r] = "done" /\ bgErr[r] # ""
            /\ has(ticketTracker, body[r].email)
            /\ ticketTracker[body[r].email].by = r ) =>
              ticketTracker[body[r].email] = FailedRec(r, bgErr[r]))
  /\ [][\A r \in Reqs :
          (BgEnds(r) /\ bgErr'[r] # "") =>
             /\ has(ticketTracker', body[r].email)
             /\ ticketTracker'[body[r].email] = FailedRec(r, bgErr'[r])
             /\ bgErr'[r] \in {"create error", "transcript error"}]_vars

\* C9 witness: ticket creation failed for a submission with a conversation
\* id; the failure note is out and the record is Failed with the message.
C9_Witness ==
  \E r \in Reqs :
    /\ bpc[r] = "done" /\ bgErr[r] = "create error"
    /\ body[r].conversationId # ""
    /\ NoteCalls(r, "failure", "create error") # {}
    /\ ticketTracker[body[r].email] = FailedRec(r, "create error")

\* A transcript step of r's background task failed.
TranscriptStepFailed(r) ==
  InLog(r, "transcript_failed") \/ bgErr[r] = "transcript error"

\* C10: a failed transcript step never aborts ticket creation: the creation
\* call is still made and the submission is not marked Failed for it.
C10_TranscriptFailureTolerated ==
  \A r \in Reqs :
    TranscriptStepFailed(r) =>
      /\ bgErr[r] # "transcript error"
      /\ bpc[r] = "done" => InLog(r, "create")

----------------------------------------------------------------------------
\* fetchWithRetry.

\* C11: a call with retries = N makes at most N+1 axios calls; when every
\* one fails it makes exactly N+1 (4 with the default N = 3) and throws the
\* error of the last one; a response is returned only from a call that
\* resolved, never after all have failed.
C11_AtMostRetriesPlusOneAttempts ==
  /\ calls <= retries + 1
  /\ fpc = "thrown" =>
        /\ calls = retries + 1
        /\ attempts = calls
        /\ result = Failure(calls)
        /\ retries = DefaultRetries => calls = 4
  /\ (fpc \in {"returned", "thrown"} /\ attempts = calls) => fpc = "thrown"
  /\ fpc = "returned" => (result = Response(calls) /\ attempts = calls - 1)

\* C11 witness: a call with the default retries has failed four times and
\* thrown the error of the fourth call.
C11_Witness ==
  /\ fpc = "thrown"
  /\ retries = DefaultRetries
  /\ calls = 4 /\ Len(waits) = 3
  /\ result = Failure(4)

\* delay e follows delay d within the jitter band around the capped double.
InJitterBand(d, e) ==
  LET m == Min(d * 2, Cap * Unit)
  IN  m * JitterLow <= e * JitterDen /\ e * JitterDen <= m * JitterHigh

\* 0.8 times the cap: the least delay that can follow a capped doubling.
CapFloor == (Cap * Unit * JitterLow) \div JitterDen

\* C12 as stated: every delay after the first lies in the jitter band of its
\* predecessor, and the delays never decrease from one that is within the cap.
C12_BackoffMonotoneUpToCap ==
  \A i \in 1..(Len(waits) - 1) :
    /\ InJitterBand(waits[i], waits[i + 1])
    /\ waits[i] <= Cap * Unit => waits[i + 1] >= waits[i]

\* C12 amended: every delay after the first lies in the jitter band of its
\* predecessor; the delays do not decrease from one that is at most 0.8 times
\* the cap, and after a larger one the next delay may be smaller but is never
\* below 0.8 times the cap.
C12_BackoffWithinJitterBand ==
  \A i \in 1..(Len(waits) - 1) :
    /\ InJitterBand(waits[i], waits[i + 1])
    /\ waits[i] <= CapFloor => waits[i + 1] >= waits[i]
    /\ waits[i + 1] >= Min(waits[i], CapFloor)

\* C12 witness: from the default initial delay the waits grew past 0.8 times
\* the cap and the next wait, inside its band, was shorter.
C12_Witness ==
  /\ initialDelay = DefaultInitialDelay * Unit
  /\ \E i \in 1..(Len(waits) - 1) :
       /\ waits[i] > CapFloor /\ waits[i] <= Cap * Unit
       /\ waits[i + 1] < waits[i]
       /\ InJitterBand(waits[i], waits[i + 1])

----------------------------------------------------------------------------
\* The banner merge.

Occurrences(d, ps) == Cardinality({i \in 1..Len(d) : d[i] \in ps})

\* d holds exactly one banner: one anchor phrase and one conversation-URL line.
HasOneBanner(d) ==
  Occurrences(d, {Anchor}) = 1 /\ Occurrences(d, UrlLines) = 1

\* C13: the banner merge is idempotent: merged into a description that
\* already holds the banner, it yields a description with exactly one banner
\* occurrence, one anchor phrase and one conversation-URL line.
C13_BannerMergeIdempotent ==
  (merged >= 1 /\ HasOneBanner(previous)) => HasOneBanner(description)

\* a is b with some pieces left out.
RECURSIVE IsSubsequence(_, _)
IsSubsequence(a, b) ==
  IF a = << >> THEN TRUE
  ELSE IF b = << >> THEN FALSE
  ELSE IF Head(a) = Head(b) THEN IsSubsequence(Tail(a), Tail(b))
  ELSE IsSubsequence(a, Tail(b))

\* C14: the banner merge removes nothing: every piece of the description,
\* banner lines included, is still there after the merge in the same order,
\* and when the anchor phrase was present no second banner is prepended.
C14_BannerMergeKeepsContent ==
  merged >= 1 =>
    /\ IsSubsequence(previous, description)
    /\ includes(previous, Anchor) =>
          /\ Occurrences(description, {Anchor}) = Occurrences(previous, {Anchor})
          /\ description # urlSection(conversation) \o previous

\* C14 witness: a description with text before and after the anchor phrase
\* has been merged and the URL line put after the anchor.
C14_Witness ==
  /\ merged >= 1
  /\ previous = <<"text", Anchor, "text">>
  /\ description = <<"text", Anchor, Blank, UrlLine(conversation), "text">>

----------------------------------------------------------------------------
\* The background task and the tracker.

\* Every occurrence of ev in the log of r comes after one of the events evs.
Preceded(r, evs, ev) ==
  \A j \in 1..Len(log[r]) :
    log[r][j] = ev => \E i \in 1..(j - 1) : log[r][i] \in evs

\* C15: in one background task the steps come strictly in the order
\* transcript, ticket creation, notifier call, terminal tracker write: the
\* creation starts only after the transcript step has finished or failed,
\* the note is posted only after the creation has returned or failed, and
\* the terminal write comes only after the notifier call has returned.
C15_BackgroundStepOrder ==
  \A r \in Reqs :
    /\ InLog(r, "transcript") =>
          Preceded(r, {"transcript_ok", "transcript_failed"}, "create")
    /\ InLog(r, "note") =>
          (Preceded(r, {"created"}, "note") \/ bgErr[r] = "create error")
    /\ InLog(r, "terminal") =>
          /\ Preceded(r, {"created"}, "terminal") \/ bgErr[r] = "create error"
          /\ notes[r] # << >> => Preceded(r, {"note"}, "terminal")

\* C16: an accepted submission that finds an InProgress record of its
\* identity is neither rejected nor queued: its handler overwrites the record
\* with a fresh InProgress record and schedules its own background task; the
\* tracker is keyed by identity, one record each.
C16_OverwritesInProgress ==
  /\ [][\A r \in Reqs :
          ( /\ hpc[r] = "recents" /\ hpc'[r] = "done"
            /\ has(ticketTracker, body[r].email)
            /\ ticketTracker[body[r].email].inProgress ) =>
              /\ ticketTracker'[body[r].email] = InProgressRec(r)
              /\ DOMAIN ticketTracker' = DOMAIN ticketTracker
              /\ bpc'[r] = "scheduled"]_vars
  /\ [](\A r \in Reqs :
          (Accepted(body[r]) /\ hpc[r] = "done") =>
             /\ bpc[r] # "idle"
             /\ InLog(r, "mark") /\ InLog(r, "detach")
             /\ \A i \in 1..Len(resp[r]) :
                  resp[r][i].view \in {"accepted", "fallback"})
  /\ [](DOMAIN ticketTracker \subseteq Emails)

\* C16 witness: the second submission overwrote the record while the task of
\* the first was still running, and has its own task scheduled.
C16_Witness ==
  /\ Accepted(body[1]) /\ Accepted(body[2])
  /\ body[1].email = body[2].email
  /\ InLog(1, "mark") /\ bpc[1] \in {"transcript", "addTranscript", "create"}
  /\ bpc[2] = "scheduled"
  /\ ticketTracker[body[2].email] = InProgressRec(2)

\* C17: no step of the submit entry point, its deadline timer or its
\* background task removes a tracker record: the set of identities in the
\* tracker shrinks only in a step of the initializer.
C17_SubmitNeverDeletes ==
  [][(\E e \in MaybeEmail : Initialize(e))
       \/ DOMAIN ticketTracker \subseteq DOMAIN ticketTracker']_vars

\* C17 witness: the record a submission marked is gone, cleared by the
\* initializer, while the background task of the submission is still running.
C17_Witness ==
  \E r \in Reqs :
    /\ InLog(r, "mark")
    /\ bpc[r] \in {"scheduled", "transcript", "addTranscript", "create"}
    /\ ~has(ticketTracker, body[r].email)

\* C18: the initializer removes the record of the initializing identity if
\* and only if that record is InProgress; a Completed or Failed record of
\* that identity and every record of another identity stay as they are.
C18_InitializerClearsOnlyInProgress ==
  [][\A e \in MaybeEmail :
       Initialize(e) =>
         /\ (DOMAIN ticketTracker \ DOMAIN ticketTracker') =
               {x \in DOMAIN ticketTracker : x = e /\ ticketTracker[x].inProgress}
         /\ DOMAIN ticketTracker' \subseteq DOMAIN ticketTracker
         /\ \A x \in DOMAIN ticketTracker' : ticketTracker'[x] = ticketTracker[x]]_vars

\* C18 witness: the initializer has run for an identity after the submission
\* (the context holds its email, not the contact of the request); the
\* terminal record of that identity and the InProgress record of another
\* identity are in the tracker.
C18_Witness ==
  /\ Finished(1)
  /\ locals # "" /\ locals # body[1].contact
  /\ has(ticketTracker, locals) /\ ~ticketTracker[locals].inProgress
  /\ \E x \in DOMAIN ticketTracker : x # locals /\ ticketTracker[x].inProgress

\* A submission of another kind than the ticket submission has arrived as r.
OtherKind(r) ==
  body[r].component_id \in {"create_ticket", "cancel", "retry_button", "other"}

\* C19: a submission of another kind (open the form, cancel, retry,
\* unrecognized) writes no tracker record and starts no background task, in
\* its handler or in its deadline timer, and none of its steps changes the
\* tracker or the background task of another submission; it ends answered.
C19_OtherKindsLeaveTrackerAndTasks ==
  /\ [](\A r \in Reqs :
          OtherKind(r) =>
             /\ RecordsBy(r) = {}
             /\ ~InLog(r, "mark") /\ ~InLog(r, "tmark")
             /\ bpc[r] = "idle" /\ notes[r] = << >>
             /\ Quiet(r) => Len(resp[r]) >= 1)
  /\ [][\A r \in Reqs :
          ( /\ body'[r].component_id \in
                  {"create_ticket", "cancel", "retry_button", "other"}
            /\ <<hpc[r], tpc[r], resp[r], responseSent[r]>> #
                  <<hpc'[r], tpc'[r], resp'[r], responseSent'[r]>> ) =>
              /\ ticketTracker' = ticketTracker
              /\ bpc' = bpc /\ bgErr' = bgErr /\ bgTicket' = bgTicket
              /\ notes' = notes]_vars

\* C19 witness: a cancel for the identity of a running submission was
\* answered by its deadline fallback; the record and the task of the running
\* submission are as they were.
C19_Witness ==
  /\ Accepted(body[1]) /\ body[2].component_id = "cancel"
  /\ body[2].contact = body[1].email
  /\ InLog(2, "timeout") /\ Quiet(2)
  /\ bpc[1] \in {"transcript", "addTranscript", "create"}
  /\ ticketTracker[body[1].email] = InProgressRec(1)

\* C20: every path through the submit entry point ends in a renderable
\* view: every response carries a canvas, and a submission whose handling
\* threw is answered by the outer catch with the error view, as its single
\* response.
C20_EveryPathEndsInView ==
  \A r \in Reqs :
    /\ \A i \in 1..Len(resp[r]) : Renderable(resp[r][i])
    /\ InLog(r, "throw") => resp[r] = <<Plain("error")>>
    /\ Quiet(r) => Len(resp[r]) >= 1

----------------------------------------------------------------------------
\* Context, validation and outcomes.

\* C21: a submission uses only its own context: every tracker key it writes
\* is the email of its form or of its contact, and its deadline timer marks
\* the tracker and fetches recent tickets only for an identity the request
\* itself carries, never for one left in app.locals by another request.
C21_OwnContextOnly ==
  \A r \in Reqs :
    /\ RecordsBy(r) \subseteq {body[r].email, body[r].contact}
    /\ InLog(r, "tmark") => body[r].contact # ""
    /\ tpc[r] = "fetch" => body[r].contact # ""

\* C22: a ticket submission whose email is not empty but does not look like
\* an email address fails validation: it is answered with the form view with
\* the email field flagged, writes no tracker record and starts no
\* background task.
C22_MalformedEmailRejected ==
  \A r \in Reqs :
    ( /\ TicketSubmission(r)
      /\ ~isEmailEmpty(body[r])
      /\ ~LooksLikeEmail(body[r].email) ) =>
        /\ \A i \in 1..Len(resp[r]) :
              resp[r][i].view = "error_form" /\ resp[r][i].emailErr
        /\ RecordsBy(r) = {}
        /\ bpc[r] = "idle"

\* C23: the form view returned when validation fails flags exactly the
\* violated fields: the email error if and only if the email is empty after
\* trimming, the subject error if and only if the subject is empty after
\* trimming, whether or not the dropdown metadata could be fetched again; the
\* handler of such a submission answers with that view unless the deadline
\* timer answered first.
C23_FlagsExactlyViolatedFields ==
  \A r \in Reqs :
    /\ \A i \in 1..Len(resp[r]) :
          resp[r][i].view = "error_form" =>
            /\ InvalidSubmission(r)
            /\ resp[r][i].emailErr = (body[r].email \in {"", Whitespace})
            /\ resp[r][i].subjectErr = (body[r].subject \in {"", Whitespace})
    /\ ( /\ TicketSubmission(r)
         /\ body[r].email \in {"", Whitespace} \/ body[r].subject \in {"", Whitespace}
         /\ hpc[r] = "done" /\ ~InLog(r, "timeout") ) =>
           /\ Len(resp[r]) = 1
           /\ resp[r][1].view = "error_form"

\* C23 witness: a submission with a white-space email and a subject, whose
\* dropdown re-fetch failed, got the form with the email field alone flagged.
C23_Witness ==
  \E r \in Reqs :
    /\ body[r].email = Whitespace /\ body[r].subject = "Help"
    /\ InLog(r, "refetch_failed")
    /\ resp[r] = <<View("error_form", TRUE, FALSE)>>

\* C24: the description is optional: a submission with a valid email, a
\* subject and a product id but no description (and no conversation source
\* body) is accepted: it is marked InProgress, answered with the accepted or
\* the fallback view, and its background task is started.
C24_DescriptionOptional ==
  \A r \in Reqs :
    ( /\ TicketSubmission(r)
      /\ LooksLikeEmail(body[r].email) /\ body[r].subject = "Help"
      /\ body[r].product_id = "7" /\ body[r].description = ""
      /\ hpc[r] = "done" ) =>
        /\ InLog(r, "mark")
        /\ bpc[r] # "idle"
        /\ \A i \in 1..Len(resp[r]) : resp[r][i].view \in {"accepted", "fallback"}

\* A required field of the ticket is missing from the form.
LacksRequiredField(b) ==
  \/ b.email \in {"", Whitespace}
  \/ b.subject \in {"", Whitespace}
  \/ b.product_id = ""

\* C25: a ticket submission that lacks a required field (email, subject,
\* product id) never reaches the ticketing API and leaves no trace: no
\* ticket creation call is made, no background task is started and no
\* tracker record is written for it.
C25_MissingFieldNeverCreates ==
  \A r \in Reqs :
    (TicketSubmission(r) /\ LacksRequiredField(body[r])) =>
      /\ ~InLog(r, "create")
      /\ bpc[r] = "idle"
      /\ RecordsBy(r) = {}
      /\ ~InLog(r, "mark") /\ ~InLog(r, "tmark")

\* C26: the background task of a submission is started exactly once, when
\* its handler returns, and calls ticket creation at most once, whichever
\* response path fired; a task that has ended, failed or not, never runs
\* again.
C26_BackgroundTaskNeverRetried ==
  /\ [](\A r \in Reqs :
          /\ Count(r, "detach") <= 1
          /\ Count(r, "create") <= 1
          /\ (Accepted(body[r]) /\ hpc[r] = "done") => Count(r, "detach") = 1
          /\ bpc[r] # "idle" => (Accepted(body[r]) /\ Count(r, "detach") = 1))
  /\ [][\A r \in Reqs : bpc[r] = "done" => bpc'[r] = "done"]_vars

\* C26 witness: the fallback answered, ticket creation failed, and the task
\* has ended after its single creation call.
C26_Witness ==
  \E r \in Reqs :
    /\ Accepted(body[r]) /\ InLog(r, "timeout")
    /\ bpc[r] = "done" /\ bgErr[r] = "create error"
    /\ Count(r, "detach") = 1 /\ Count(r, "create") = 1

\* C27: the background task of a submission makes exactly one terminal
\* transition: one terminal step, one of Completed and Failed, at most one
\* outcome note (never a success note and a failure note), and a terminal
\* record a submission wrote is never rewritten by that submission.
C27_ExactlyOneTerminalTransition ==
  /\ [](\A r \in Reqs :
          /\ Count(r, "terminal") <= 1
          /\ bpc[r] = "done" => Count(r, "terminal") = 1
          /\ Len(notes[r]) <= 1
          /\ ~(bgTicket[r] # 0 /\ bgErr[r] # "")
          /\ \A e \in RecordsBy(r) :
               ~ticketTracker[e].inProgress =>
                  \/ ticketTracker[e] = CompletedRec(r, bgTicket[r]) /\ bgTicket[r] # 0
                  \/ ticketTracker[e] = FailedRec(r, bgErr[r]) /\ bgErr[r] # "")
  /\ [][\A r \in Reqs : \A e \in RecordsBy(r) :
          (~ticketTracker[e].inProgress /\ has(ticketTracker', e)
             /\ ticketTracker'[e].by = r) =>
               ticketTracker'[e] = ticketTracker[e]]_vars

\* C27 witness: the success note could not be posted, and the task still
\* ended with its one note call and the Completed record.
C27_Witness ==
  \E r \in Reqs :
    /\ bpc[r] = "done" /\ bgTicket[r] # 0
    /\ Len(notes[r]) = 1 /\ ~notes[r][1].posted /\ notes[r][1].kind = "success"
    /\ ticketTracker[body[r].email] = CompletedRec(r, bgTicket[r])

\* C28: a failed recent-tickets fetch neither blocks nor fails the
\* response: the step in which the fetch fails answers with the default view
\* and an empty recent-tickets list, on the accepted path, on the cancel
\* path and in the deadline fallback; on the accepted path the submission is
\* still marked InProgress and its background task is still started.
C28_RecentsFailureTolerated ==
  \A r \in Reqs :
    /\ (InLog(r, "recents_failed") /\ ~InLog(r, "timeout")) =>
          resp[r] = <<RecentItems(Plain(IF body[r].component_id = "cancel"
                                        THEN "home" ELSE "accepted"), "fail")>>
    /\ (InLog(r, "recents_failed") /\ body[r].component_id # "cancel") =>
          /\ InLog(r, "mark") /\ InLog(r, "detach")
          /\ bpc[r] # "idle"
    /\ InLog(r, "tfetch_failed") =>
          \E i \in 1..Len(resp[r]) :
            resp[r][i] = RecentItems(Plain("fallback"), "fail")

\* C28 witness: the recent-tickets fetch of an accepted submission failed;
\* the accepted view went out with an empty list and the task created the
\* ticket.
C28_Witness ==
  \E r \in Reqs :
    /\ Accepted(body[r]) /\ InLog(r, "recents_failed")
    /\ resp[r] = <<RecentItems(Plain("accepted"), "fail")>>
    /\ bpc[r] = "done" /\ bgTicket[r] # 0

\* The state of a tracker record, read from its fields.
IsInProgress(rec) == rec.inProgress

IsCompleted(rec) == ~rec.inProgress /\ rec.ticketId # 0

IsFailed(rec) == ~rec.inProgress /\ rec.error # ""

\* C29: every tracker record is in exactly one of InProgress, Completed and
\* Failed; it carries a ticket id only when Completed and an error message
\* only when Failed, never both; an InProgress record carries its start
\* timestamp and neither of the two.
C29_RecordInExactlyOneState ==
  \A e \in DOMAIN ticketTracker :
    LET rec == ticketTracker[e] IN
      /\ Cardinality({k \in {"InProgress", "Completed", "Failed"} :
                        \/ k = "InProgress" /\ IsInProgress(rec)
                        \/ k = "Completed" /\ IsCompleted(rec)
                        \/ k = "Failed" /\ IsFailed(rec)}) = 1
      /\ rec.ticketId # 0 => IsCompleted(rec) /\ rec.error = ""
      /\ rec.error # "" => IsFailed(rec) /\ rec.ticketId = 0
      /\ IsInProgress(rec) =>
            rec.stamp = "startedAt" /\ rec.ticketId = 0 /\ rec.error = ""

\* C29 witness: the tracker holds a Failed record beside an InProgress one.
C29_Witness ==
  \E e1, e2 \in DOMAIN ticketTracker :
    /\ IsFailed(ticketTracker[e1]) /\ ticketTracker[e1].error = "create error"
    /\ IsInProgress(ticketTracker[e2])

\* C30: a create_ticket submission whose metadata fetch failed is answered
\* with the retry-affordance error view as its single response, and writes
\* no tracker record.
C30_MetadataFailureSingleErrorView ==
  \A r \in Reqs :
    (/\ body[r].component_id = "create_ticket"
     /\ \E i \in 1..Len(resp[r]) : resp[r][i] = Plain("retry_error")) =>
       /\ resp[r] = <<Plain("retry_error")>>
       /\ RecordsBy(r) = {}

----------------------------------------------------------------------------
\* Interleavings of submissions, timers, tasks and the initializer.

\* The background task of r has started and has not ended.
BgRunning(r) == bpc[r] \notin {"idle", "done"}

\* C31: submissions for one identity are not serialized.  The task that
\* ends writes the record of its email whatever record is there, so the
\* record left when the tasks are over is the one of the task that ended
\* last; requests arrive in the order of their numbers, and the witness is
\* a state where the earlier submission's record is the one left.
C31_LastFinisherWins ==
  /\ [][\A r \in Reqs :
          (BgEnds(r) /\ body[r].email # "") =>
             /\ has(ticketTracker', body[r].email)
             /\ ticketTracker'[body[r].email].by = r
             /\ ~ticketTracker'[body[r].email].inProgress]_vars
  /\ [](\A r \in Reqs :
          ( /\ InLog(r, "terminal")
            /\ \A q \in Reqs :
                 hpc[q] = "idle" \/ (Accepted(body[q]) /\ Finished(q)) ) =>
              /\ has(ticketTracker, body[r].email)
              /\ ~ticketTracker[body[r].email].inProgress
              /\ ticketTracker[body[r].email].by \in
                    {q \in Reqs : /\ body[q].email = body[r].email
                                  /\ InLog(q, "terminal")})

\* C31 witness: two submissions for one identity are over; the later one
\* wrote its terminal record while the task of the earlier one was still
\* running, and the record left is the earlier submission's.
C31_Witness ==
  \E r, q \in Reqs :
    /\ r < q /\ body[r].email = body[q].email
    /\ Finished(r) /\ Finished(q)
    /\ InLog(r, "terminal") /\ InLog(q, "terminal")
    /\ ticketTracker[body[r].email].by = r
    /\ ~ticketTracker[body[r].email].inProgress

\* C32: on the accepted path without a deadline the events of a submission
\* come in the order InProgress write, response, detach, first step of the
\* background task; and on every path the task is scheduled, and so makes
\* its outbound calls, only once the response-sent flag is set.
C32_MarkRespondThenBackground ==
  \A r \in Reqs :
    /\ (Accepted(body[r]) /\ ~InLog(r, "timeout")) =>
          /\ Preceded(r, {"mark"}, "respond")
          /\ Preceded(r, {"respond"}, "detach")
          /\ \A ev \in {"transcript", "create", "note", "terminal"} :
                Preceded(r, {"detach"}, ev)
          /\ bpc[r] # "idle" =>
                (InLog(r, "mark") /\ resp[r] # << >> /\ InLog(r, "detach"))
    /\ bpc[r] # "idle" => responseSent[r]

\* C32 witness: the task of an accepted submission answered before the
\* deadline has made its creation call.
C32_Witness ==
  \E r \in Reqs :
    /\ Accepted(body[r]) /\ ~InLog(r, "timeout")
    /\ Before(r, "mark", "respond") /\ Before(r, "respond", "detach")
    /\ Before(r, "detach", "create")
    /\ bpc[r] = "create" /\ responseSent[r]

\* C33: every InProgress record written for an accepted submission, by its
\* handler or by its deadline fallback, is under the email its background
\* task writes the terminal record under.
C33_FallbackMarksTaskIdentity ==
  \A e \in DOMAIN ticketTracker :
    LET rec == ticketTracker[e] IN
      (rec.inProgress /\ Accepted(body[rec.by])) => e = body[rec.by].email

\* C34: within one submission every InProgress write, by the handler or by
\* the deadline fallback, comes before the terminal write: the fallback
\* writes only while the flag is unset, which is before the handler marks
\* and detaches, and no step turns a terminal record of a submission back
\* into an InProgress record of the same submission.
C34_InProgressBeforeOwnTerminal ==
  /\ [](\A r \in Reqs :
          /\ \A i, j \in 1..Len(log[r]) :
                (log[r][i] \in {"mark", "tmark"} /\ log[r][j] = "terminal")
                   => i < j
          /\ InLog(r, "tmark") => Before(r, "tmark", "detach"))
  /\ [][\A e \in DOMAIN ticketTracker :
          (~ticketTracker[e].inProgress /\ has(ticketTracker', e)
             /\ ticketTracker'[e].inProgress)
            => ticketTracker'[e].by # ticketTracker[e].by]_vars

\* C34 witness: the fallback marked, then the handler marked and detached,
\* and the task has written its terminal record.
C34_Witness ==
  \E r \in Reqs :
    /\ Before(r, "tmark", "mark") /\ Before(r, "mark", "terminal")
    /\ InLog(r, "terminal")
    /\ has(ticketTracker, body[r].email)
    /\ ~ticketTracker[body[r].email].inProgress
    /\ ticketTracker[body[r].email].by = r

\* The note the task of r sent last could not be posted.
LastNoteFailed(r) ==
  notes[r] # << >> /\ ~notes[r][Len(notes[r])].posted

\* C35: a notifier failure does not change the recorded outcome: the step
\* in which postIntercomNote returns without having posted the note writes
\* Completed with the ticket id after a successful creation and Failed with
\* the error of the task after a failed one, and the task never takes
\* another error from the notifier.
C35_NotifierFailureKeepsOutcome ==
  /\ [][\A r \in Reqs :
          ( /\ bpc[r] \in {"noteSuccess", "noteFailure"} /\ bpc'[r] = "done"
            /\ ~notes'[r][Len(notes'[r])].posted
            /\ body[r].email # "" ) =>
              ticketTracker'[body[r].email] =
                IF bgTicket[r] # 0
                THEN CompletedRec(r, bgTicket[r])
                ELSE FailedRec(r, bgErr[r])]_vars
  /\ [](\A r \in Reqs :
          /\ bgTicket[r] # 0 => bgErr[r] = ""
          /\ bgErr[r] # "note error")

\* C35 witness: the ticket was created, the success note could not be
\* posted, and the record is Completed with the ticket id.
C35_Witness ==
  \E r \in Reqs :
    /\ bpc[r] = "done" /\ bgTicket[r] = TicketIdOf(r)
    /\ LastNoteFailed(r)
    /\ notes[r][Len(notes[r])].kind = "success"
    /\ ticketTracker[body[r].email] = CompletedRec(r, TicketIdOf(r))

\* The record the handler of r marked is gone while the task of r runs: the
\* initializer has cleared it.
ClearedWhileRunning(r) ==
  /\ BgRunning(r) /\ InLog(r, "mark")
  /\ ~has(ticketTracker, body[r].email)

\* The task of r is over and the record of its email is its terminal one.
OutcomeRecorded(r) ==
  /\ bpc[r] = "done"
  /\ has(ticketTracker, body[r].email)
  /\ ticketTracker[body[r].email] \in
        {CompletedRec(r, bgTicket[r]), FailedRec(r, bgErr[r])}

\* C36: an initialize that clears the InProgress record of an identity
\* while the task for it is running does not affect the task: the task goes
\* on to its terminal write, the record reappears as Completed or Failed,
\* and once the task of a submission is over its outcome stays recorded.
C36_InitializeDoesNotLoseOutcome ==
  /\ \A r \in Reqs : ClearedWhileRunning(r) ~> OutcomeRecorded(r)
  /\ [](\A r \in Reqs : bpc[r] = "done" => OutcomeRecorded(r))

\* C36 witness: the initializer has cleared the record of a submission
\* whose task has started and not ended.
C36_Witness ==
  \E r \in Reqs :
    /\ ClearedWhileRunning(r)
    /\ locals = body[r].email

----------------------------------------------------------------------------
\* fetchWithRetry: attempts and waits.

\* C37: fetchWithRetry returns the response of the first call that resolves
\* and makes no call after it; there is one wait between two consecutive
\* calls and none after the last failed call: k failed calls followed by a
\* success make k waits and k + 1 calls.
C37_OneWaitBetweenAttempts ==
  /\ [](fpc \in {"attempt", "returned", "thrown"} => Len(waits) = calls - 1)
  /\ [](fpc = "wait" => (Len(waits) = calls /\ attempts = calls))
  /\ [](fpc = "returned" =>
          /\ result = Response(calls)
          /\ attempts = calls - 1
          /\ Len(waits) = attempts)
  /\ [](fpc = "thrown" => (Len(waits) = retries /\ calls = retries + 1))
  /\ [][(fpc = "returned" \/ fpc = "thrown") =>
          (calls' = calls /\ waits' = waits /\ result' = result)]_vars

\* C37 witness: two calls failed and the third resolved: two waits, three
\* calls, the response of the third.
C37_Witness ==
  /\ fpc = "returned"
  /\ attempts = 2 /\ calls = 3 /\ Len(waits) = 2
  /\ result = Response(3)

\* 1.2 times the cap.
CapCeiling == (Cap * Unit * JitterHigh) \div JitterDen

\* C38: the first wait is the initial delay itself, without jitter, and for
\* an initial delay not above the cap no wait exceeds 1.2 times the cap,
\* whatever the retry count and the jitter.
C38_FirstWaitExactAndWaitsBounded ==
  /\ waits # << >> => waits[1] = initialDelay
  /\ initialDelay <= Cap * Unit =>
        \A i \in 1..Len(waits) : waits[i] <= CapCeiling

\* C38 witness: from an initial delay equal to the cap, the first wait was
\* the cap and a later one reached 1.2 times the cap.
C38_Witness ==
  /\ initialDelay = Cap * Unit
  /\ Len(waits) >= 2
  /\ waits[1] = Cap * Unit
  /\ \E i \in 2..Len(waits) : waits[i] = CapCeiling

====
